---- MODULE Spec2Model ----
(***************************************************************************)
(* OpenFactCheck: solver registry, pipeline builder and pipeline executor. *)
(*                                                                         *)
(*   openfactcheck/solver.py                      SOLVER_REGISTRY,         *)
(*                                                StandardTaskSolver,      *)
(*                                                Solver.register          *)
(*   openfactcheck/state.py                       FactCheckerState         *)
(*   openfactcheck/base.py                        OpenFactCheck            *)
(*   openfactcheck/evaluator/response/evaluate.py ResponseEvaluator        *)
(***************************************************************************)
EXTENDS Integers, Sequences, FiniteSets, TLC

\* ------------------------------------------------------------------------
\* Bounds of the model
\* ------------------------------------------------------------------------
\* longest list of solver names handed to a pipeline build
MaxLen == 3
\* slot values are 1..MaxVal
MaxVal == 2

\* ------------------------------------------------------------------------
\* Values, slots, names
\* ------------------------------------------------------------------------
\* hasattr(state, slot) is false
Absent == -1
\* Python None held by a slot (question defaults to None)
None == 0
Values == 1..MaxVal

Slots == {"question", "response", "claims", "claims_with_evidences", "label"}
\* a class attribute input_name / output_name that is None
NoneName == "None"
\* key not present in a solver's configuration mapping
NoKey == "<absent>"

CP == "factool_claimprocessor"
RTV == "factool_retriever"
VFR == "factool_verifier"
\* registered by discovery, but without an entry in solver_configs
Unconfigured == "concat_response_generator"
\* has an entry in solver_configs, but no module registered it
Unregistered == "unregistered_solver"
Names == {CP, RTV, VFR, Unconfigured, Unregistered}

Classes == {"FactoolClaimProcessor", "FactoolRetriever", "FactoolVerifier",
            "ConcatResponseRegenerator"}
NoClass == "<unregistered>"
NoConfig == [input_name |-> "<noconfig>", output_name |-> "<noconfig>"]
SampleNames == {"s1"}

\* ------------------------------------------------------------------------
\* FactCheckerState (state.py)
\* ------------------------------------------------------------------------
\* the attributes every FactCheckerState has through its class: its methods
ClassAttributes == {"get", "set", "to_dict"}
\* the names hasattr / getattr / setattr are used with
AttrNames == Slots \cup ClassAttributes
\* what getattr gives for a method of the class
BoundMethod == -2

\* FactCheckerState.__init__: the instance __dict__ holds exactly the two
\* attributes question, response (st[n] = Absent: n is not in __dict__)
NewState(question, response) ==
    [s \in AttrNames |-> IF s = "question" THEN question
                         ELSE IF s = "response" THEN response
                         ELSE Absent]

\* hasattr(state, name): the instance __dict__, then the class
HasSlot(st, name) ==
    name \in AttrNames /\ (st[name] # Absent \/ name \in ClassAttributes)

\* state.<method>(...) can be called: the name still resolves to the method
\* of the class, no instance attribute of that name hides it
Callable(st, method) == st[method] = Absent

\* FactCheckerState.set: warns when the slot exists, writes in every case
StateSet(st, name, value) == [st EXCEPT ![name] = value]

\* a get that answers a missing slot with None instead of raising
StateGetDefault(st, name) ==
    [raised |-> FALSE,
     value |-> IF name \in AttrNames /\ st[name] # Absent THEN st[name]
               ELSE None]

\* FactCheckerState.get: [raised, value]; raises ValueError when
\* hasattr(state, name) is false (TypeError when "get" itself was
\* overwritten by a set)
StateGet(st, name) ==
    IF ~Callable(st, "get")
    THEN [raised |-> TRUE, value |-> Absent]
    ELSE IF HasSlot(st, name)
    THEN [raised |-> FALSE,
          value |-> IF st[name] # Absent THEN st[name] ELSE BoundMethod]
    ELSE [raised |-> TRUE, value |-> Absent]

\* ------------------------------------------------------------------------
\* Solver registry (solver.py)
\* ------------------------------------------------------------------------
EmptyRegistry == [n \in Names |-> NoClass]
UnsetAttrs == [c \in Classes |-> [name |-> NoneName, input_name |-> NoneName,
                                  output_name |-> NoneName]]

\* a class that does not extend StandardTaskSolver
NotASolver == "NotASolver"

\* a registration that replaces the entry of a registered name
RegisterOverwrite(reg, name, input_name, output_name, cls) ==
    IF cls \notin Classes
    THEN reg
    ELSE [registry |-> [reg.registry EXCEPT ![name] = cls],
          attrs |-> [reg.attrs EXCEPT ![cls] =
                        [name |-> name, input_name |-> input_name,
                         output_name |-> output_name]]]

\* Solver.register(name, input_name, output_name)(cls) on the pair
\* (SOLVER_REGISTRY, class attributes): a registered name is left alone; a
\* class that is not a StandardTaskSolver is refused (ValueError)
Register(reg, name, input_name, output_name, cls) ==
    IF reg.registry[name] # NoClass
    THEN reg
    ELSE IF cls \notin Classes
    THEN reg
    ELSE [registry |-> [reg.registry EXCEPT ![name] = cls],
          attrs |-> [reg.attrs EXCEPT ![cls] =
                        [name |-> name, input_name |-> input_name,
                         output_name |-> output_name]]]

\* what the decorator hands back: the class already registered under the
\* name, a ValueError, or the class it has just registered
RegisterOutcome(registry, name, cls) ==
    IF registry[name] # NoClass
    THEN [raised |-> FALSE, returned |-> registry[name]]
    ELSE IF cls \notin Classes
    THEN [raised |-> TRUE, returned |-> NoClass]
    ELSE [raised |-> FALSE, returned |-> cls]

\* The registry after OpenFactCheck.load_solvers imported the solver modules
Discovered ==
    LET r0 == [registry |-> EmptyRegistry, attrs |-> UnsetAttrs]
        r1 == Register(r0, CP, "response", "claims", "FactoolClaimProcessor")
        r2 == Register(r1, RTV, "claims", "claims_with_evidences", "FactoolRetriever")
        r3 == Register(r2, VFR, "claims_with_evidences", "label", "FactoolVerifier")
    IN Register(r3, Unconfigured, "claims", "response", "ConcatResponseRegenerator")

\* ------------------------------------------------------------------------
\* Pipeline builder (base.py)
\* ------------------------------------------------------------------------
\* every list of at most MaxLen names
NameLists == UNION {[1..n -> Names] : n \in 0..MaxLen}

\* self.pipeline[name] = entry on an insertion-ordered dict: a key that is
\* already present keeps its position and gets the new value
DictSet(p, e) ==
    IF \E i \in 1..Len(p) : p[i].name = e.name
    THEN [i \in 1..Len(p) |-> IF p[i].name = e.name THEN e ELSE p[i]]
    ELSE Append(p, e)

\* setattr(solver_cls, key, value) for the keys of args
ApplyArgs(attr, args) ==
    [attr EXCEPT
        !.input_name = IF args.input_name = NoKey THEN @ ELSE args.input_name,
        !.output_name = IF args.output_name = NoKey THEN @ ELSE args.output_name]

\* OpenFactCheck.init_solver(solver_name, args): raises when the name is not
\* registered; otherwise patches the class, constructs the solver twice (once
\* for the log line) and returns (solver, cls.input_name, cls.output_name)
init_solver(registry, attrs, solver_name, args) ==
    IF registry[solver_name] = NoClass
    THEN [raised |-> TRUE, attrs |-> attrs, constructed |-> 0,
          entry |-> [name |-> solver_name, cls |-> NoClass,
                     input_name |-> NoneName, output_name |-> NoneName]]
    ELSE LET cls == registry[solver_name]
             a == ApplyArgs(attrs[cls], args)
         IN [raised |-> FALSE,
             attrs |-> [attrs EXCEPT ![cls] = a],
             constructed |-> 2,
             entry |-> [name |-> solver_name, cls |-> cls,
                        input_name |-> a.input_name,
                        output_name |-> a.output_name]]

\* The loop of init_pipeline / init_pipeline_manually over the names that are
\* left, from the pipeline p built so far (self.pipeline = {} at the start)
RECURSIVE BuildLoop(_, _, _, _, _, _)
BuildLoop(registry, configs, names, p, attrs, constructed) ==
    IF names = <<>>
    THEN [status |-> "ok", reason |-> "none", pipeline |-> p, attrs |-> attrs,
          constructed |-> constructed]
    ELSE LET required_solver == Head(names) IN
         IF configs[required_solver] = NoConfig
         THEN [status |-> "raised", reason |-> "config", pipeline |-> p,
               attrs |-> attrs, constructed |-> constructed]
         ELSE LET r == init_solver(registry, attrs, required_solver,
                                   configs[required_solver])
              IN IF r.raised
                 THEN [status |-> "raised", reason |-> "registry",
                       pipeline |-> p, attrs |-> attrs,
                       constructed |-> constructed]
                 ELSE BuildLoop(registry, configs, Tail(names),
                                DictSet(p, r.entry), r.attrs,
                                constructed + r.constructed)

PipelineNames(p) == [i \in 1..Len(p) |-> p[i].name]


\* ------------------------------------------------------------------------
\* State of the program
\* ------------------------------------------------------------------------
VARIABLES
    SOLVER_REGISTRY,   \* solver.py: name -> registered class
    classAttrs,        \* class -> its name / input_name / output_name attributes
    solver_configs,    \* OpenFactCheck.solver_configs: name -> args
    pipeline,          \* OpenFactCheck.pipeline: insertion-ordered dict
    lastBuild,         \* the last pipeline build: its arguments and outcome
    run,               \* locals of the current evaluate / generator frame
    events,            \* events the streaming generator has yielded
    log,               \* sample name -> lines of <sample_name>.jsonl
    call,              \* the last direct call of the API and its outcome
    state,             \* __dict__ of a FactCheckerState used directly
    snapshot,          \* a dictionary obtained from that state's to_dict()
    threads,           \* thread -> locals of its evaluate frame
    dirs               \* directories that exist under ofc.output_path

vars == <<SOLVER_REGISTRY, classAttrs, solver_configs, pipeline, lastBuild,
          run, events, log, call, state, snapshot, threads, dirs>>

\* the variables of the direct uses of the registry and the state API
apiVars == <<call, state, snapshot>>

ofcVars == <<SOLVER_REGISTRY, classAttrs, solver_configs, pipeline, lastBuild>>

\* the variables of runs that share the object from several threads
concVars == <<threads, dirs>>

NoArgs == [input_name |-> NoKey, output_name |-> NoKey]

\* solver_configs as loaded from the configuration: one mapping per
\* configured solver, optionally remapping the retriever's input slot
ConfigChoices ==
    {[n \in Names |-> IF n = Unconfigured THEN NoConfig
                      ELSE IF n = RTV THEN [NoArgs EXCEPT !.input_name = inp]
                      ELSE NoArgs] : inp \in {NoKey, "response"}}

\* no direct call has been made; no dictionary has been taken
NoCall == [op |-> "none"]
NoSnapshot == [held |-> FALSE]

IdleRun ==
    [pc |-> "idle", mode |-> "none", sample_name |-> "s1", callback |-> FALSE,
     question |-> None, response |-> None, items |-> <<>>, i |-> 1,
     state |-> NewState(None, None), output_name |-> "response",
     cont |-> TRUE, hist |-> <<>>, closed |-> FALSE, base |-> 0,
     result |-> [kind |-> "none", value |-> Absent]]

\* the threads that may call evaluate on the object
Threads == {1, 2}

\* a thread that has not called evaluate
IdleThread ==
    [pc |-> "idle", sample_name |-> [dir |-> "", base |-> ""],
     response |-> None, items |-> <<>>, i |-> 1,
     state |-> NewState(None, None), output_name |-> "response",
     cont |-> TRUE, hist |-> <<>>, sawDir |-> FALSE,
     pending |-> [raised |-> FALSE, cont |-> TRUE,
                  state |-> NewState(None, None)],
     result |-> [kind |-> "none", value |-> Absent]]

\* OpenFactCheck.__init__: load the solvers, then init_pipeline(), which runs
\* the build loop on the list config.pipeline; an object exists only when
\* that build did not raise
Init ==
    /\ SOLVER_REGISTRY = Discovered.registry
    /\ solver_configs \in ConfigChoices
    /\ \E config_pipeline \in NameLists :
         LET b == BuildLoop(SOLVER_REGISTRY, solver_configs, config_pipeline,
                            <<>>, Discovered.attrs, 0)
         IN /\ b.status = "ok"
            /\ pipeline = b.pipeline
            /\ classAttrs = b.attrs
    /\ lastBuild = [op |-> "none", status |-> "none", reason |-> "none",
                    names |-> <<>>, before |-> <<>>, constructed |-> 0]
    /\ run = IdleRun
    /\ events = <<>>
    /\ log = [s \in SampleNames |-> <<>>]
    /\ call = NoCall
    /\ state = NewState(None, None)
    /\ snapshot = NoSnapshot
    /\ threads = [t \in Threads |-> IdleThread]
    /\ dirs = {}

\* ------------------------------------------------------------------------
\* Pipeline builds on an existing OpenFactCheck object
\* ------------------------------------------------------------------------
\* the body of init_pipeline_manually: self.pipeline = {}, then the loop
Rebuild(names) ==
    /\ LET b == BuildLoop(SOLVER_REGISTRY, solver_configs, names, <<>>,
                          classAttrs, 0)
       IN /\ pipeline' = b.pipeline
          /\ classAttrs' = b.attrs
          /\ lastBuild' = [op |-> "init_pipeline_manually", status |-> b.status,
                           reason |-> b.reason,
                           names |-> names, before |-> pipeline,
                           constructed |-> b.constructed]
    /\ UNCHANGED <<SOLVER_REGISTRY, solver_configs, run, events, log, apiVars, concVars>>

\* OpenFactCheck.init_pipeline_manually(names), the first rebuild of the
\* pipeline the constructor built
InitPipelineManually(names) ==
    /\ run.pc = "idle"
    /\ lastBuild.op = "none"
    /\ Rebuild(names)

NextBuild == \E names \in NameLists : InitPipelineManually(names)

SpecBuild == Init /\ [][NextBuild]_vars


\* ------------------------------------------------------------------------
\* Solver contract (solver.py, solvers/)
\* ------------------------------------------------------------------------
\* StandardTaskSolver.input_name / output_name: a solver instance reads the
\* attribute of its class at the time of the access
InstanceInputName(e) == classAttrs[e.cls].input_name
InstanceOutputName(e) == classAttrs[e.cls].output_name

\* solver(state, **kwargs): the outcomes [raised, cont, state] of one call.
\* A solver first reads state.get(self.input_name), which raises when the
\* slot is missing; it then may raise before writing anything, raise after
\* editing the value of its input slot in place, or return (cont, state)
\* with or without having set its output slot.  It returns the state object
\* it was given, so every write is visible to the executor.
SolverCall(st, input_name, output_name) ==
    IF ~HasSlot(st, input_name)
    THEN {[raised |-> TRUE, cont |-> FALSE, state |-> st]}
    ELSE {[raised |-> TRUE, cont |-> FALSE, state |-> st]}
         \cup {[raised |-> TRUE, cont |-> FALSE,
                state |-> StateSet(st, input_name, v)] : v \in Values}
         \cup {[raised |-> FALSE, cont |-> c, state |-> st] : c \in BOOLEAN}
         \cup (IF output_name \in Slots
               THEN {[raised |-> FALSE, cont |-> c,
                      state |-> StateSet(st, output_name, v)] :
                        c \in BOOLEAN, v \in Values}
               ELSE {})

\* ------------------------------------------------------------------------
\* Pipeline executor (evaluator/response/evaluate.py)
\* ------------------------------------------------------------------------
\* the line persist_output appends for a stage
StageRecord(idx, solver_name, cont, st) ==
    [idx |-> idx, solver |-> solver_name, continue |-> cont, state |-> st]

\* what can go wrong in the try block once the solver has returned: the
\* callback raises, or persist_output raises (json.dumps, open, makedirs)
PostFails(callback) ==
    IF callback THEN {"none", "callback", "persist"} ELSE {"none", "persist"}

\* a loop that does not stop on cont = False
BreakLoopNever(cont) == FALSE

\* "if not cont: break"
BreakLoop(cont) == ~cont

\* the stage the frame is at
Entry == run.items[run.i]

\* what the executor remembers of a stage that was executed; called: the
\* per-stage callback was invoked for it
StageHist(e, o, fail, persisted, called) ==
    [name |-> e.name, input_name |-> e.input_name,
     output_name |-> e.output_name, raised |-> o.raised, cont |-> o.cont,
     post |-> o.state, fail |-> fail, persisted |-> persisted,
     called |-> called]

\* ResponseEvaluator.evaluate(response, question, callback, sample_name=...)
\* on an object no run has used yet: the frame up to the first iteration of
\* the loop
Evaluate(response, question, callback, sample_name) ==
    /\ run.pc = "idle"
    /\ run' = [IdleRun EXCEPT
                  !.pc = IF pipeline = <<>> THEN "ret" ELSE "loop",
                  !.mode = "sync", !.sample_name = sample_name,
                  !.callback = callback, !.question = question,
                  !.response = response, !.items = pipeline,
                  !.base = Len(log[sample_name]),
                  !.state = NewState(question, response)]
    /\ events' = <<>>
    /\ UNCHANGED <<ofcVars, log, apiVars, concVars>>

\* one iteration of the loop of evaluate: the try block, the except block
\* and the break test
EvalStage ==
    /\ run.mode = "sync"
    /\ run.pc = "loop"
    /\ \E o \in SolverCall(run.state, InstanceInputName(Entry),
                           InstanceOutputName(Entry)),
          f \in PostFails(run.callback) :
         LET e == Entry
             fail == IF o.raised THEN "solver" ELSE f
             failed == fail # "none"
             cont == IF failed THEN FALSE ELSE o.cont
         IN /\ o.raised => f = "none"
            /\ run' = [run EXCEPT
                  !.state = o.state,
                  !.cont = cont,
                  !.output_name = IF failed THEN e.input_name
                                            ELSE e.output_name,
                  !.hist = Append(@, StageHist(e, o, fail, ~failed,
                                               run.callback /\ ~o.raised)),
                  !.i = IF BreakLoop(cont) \/ run.i = Len(run.items)
                        THEN @ ELSE @ + 1,
                  !.pc = IF BreakLoop(cont) \/ run.i = Len(run.items)
                         THEN "ret" ELSE "loop"]
            /\ log' = IF failed THEN log
                      ELSE [log EXCEPT ![run.sample_name] =
                              Append(@, StageRecord(run.i - 1, e.name,
                                                    o.cont, o.state))]
    /\ UNCHANGED <<ofcVars, events, apiVars, concVars>>

\* "return solver_output.get(output_name)"
EvalReturn ==
    /\ run.mode = "sync"
    /\ run.pc = "ret"
    /\ LET g == StateGet(run.state, run.output_name)
       IN run' = [run EXCEPT
                    !.pc = "done",
                    !.result = IF g.raised
                               THEN [kind |-> "raised", value |-> Absent]
                               ELSE [kind |-> "value", value |-> g.value]]
    /\ UNCHANGED <<ofcVars, events, log, apiVars, concVars>>


\* ResponseEvaluator.evaluate_streaming(response, question, sample_name=...,
\* callback=...): returns the generator; its body has not started. The
\* method has no callback parameter: a callback the caller passes lands in
\* **kwargs
EvaluateStreaming(response, question, callback, sample_name) ==
    /\ run.pc = "idle"
    /\ run' = [IdleRun EXCEPT
                  !.pc = "created", !.mode = "stream",
                  !.callback = callback,
                  !.sample_name = sample_name, !.question = question,
                  !.response = response,
                  !.base = Len(log[sample_name]),
                  !.state = NewState(question, response)]
    /\ events' = <<>>
    /\ UNCHANGED <<ofcVars, log, apiVars, concVars>>

\* the event yielded for a stage whose solver returned
StageEvent(idx, e, o) ==
    [index |-> idx, solver_name |-> e.name, input_name |-> e.input_name,
     output_name |-> e.output_name, input |-> o.state, output |-> o.state,
     continue_run |-> o.cont]

\* the generator resumed after the yield of stage r.i: persist_output (which
\* raises when persistFails), the except block, the break test
PersistYielded(r, lg, persistFails) ==
    LET e == r.items[r.i]
        n == Len(r.hist)
        cont == IF persistFails THEN FALSE ELSE r.cont
        stop == BreakLoop(cont) \/ r.i = Len(r.items)
    IN [run |-> [r EXCEPT
                   !.cont = cont,
                   !.output_name = IF persistFails THEN e.input_name ELSE @,
                   !.hist[n].fail = IF persistFails THEN "persist" ELSE @,
                   !.hist[n].persisted = ~persistFails,
                   !.i = IF stop THEN @ ELSE @ + 1,
                   !.pc = IF stop THEN "done" ELSE "loop"],
        log |-> IF persistFails THEN lg
                ELSE [lg EXCEPT ![r.sample_name] =
                        Append(@, StageRecord(r.i - 1, e.name, r.cont,
                                              r.state))]]

\* a generator body that goes on to persist_output without yielding the
\* event of the stage
InvokeStageWithoutYield(r, evs, o) ==
    LET e == r.items[r.i]
    IN IF o.raised
       THEN [run |-> [r EXCEPT
                        !.state = o.state, !.cont = FALSE,
                        !.output_name = e.input_name,
                        !.hist = Append(@, StageHist(e, o, "solver", FALSE,
                                                     FALSE)),
                        !.pc = "done"],
             events |-> evs]
       ELSE [run |-> [r EXCEPT
                        !.state = o.state, !.cont = o.cont,
                        !.output_name = e.output_name,
                        !.hist = Append(@, StageHist(e, o, "none", FALSE,
                                                     FALSE)),
                        !.pc = "yielded"],
             events |-> evs]

\* the generator at the top of an iteration: call the solver of stage r.i;
\* yield its event, or run the except block and leave the loop
InvokeStage(r, evs, o) ==
    LET e == r.items[r.i]
    IN IF o.raised
       THEN [run |-> [r EXCEPT
                        !.state = o.state, !.cont = FALSE,
                        !.output_name = e.input_name,
                        !.hist = Append(@, StageHist(e, o, "solver", FALSE,
                                                     FALSE)),
                        !.pc = "done"],
             events |-> evs]
       ELSE [run |-> [r EXCEPT
                        !.state = o.state, !.cont = o.cont,
                        !.output_name = e.output_name,
                        !.hist = Append(@, StageHist(e, o, "none", FALSE,
                                                     FALSE)),
                        !.pc = "yielded"],
             events |-> Append(evs, StageEvent(r.i - 1, e, o))]

\* next() on the generator: run from where the frame is suspended to the next
\* yield or to the end of the body
StreamNext ==
    /\ run.mode = "stream"
    /\ run.pc \in {"created", "yielded"}
    /\ \E persistFails \in BOOLEAN :
         /\ run.pc = "created" => ~persistFails
         /\ LET a == IF run.pc = "created"
                     THEN [run |-> [run EXCEPT
                                      !.items = pipeline,
                                      !.pc = IF pipeline = <<>> THEN "done"
                                                                ELSE "loop"],
                           log |-> log]
                     ELSE PersistYielded(run, log, persistFails)
            IN IF a.run.pc = "done"
               THEN /\ run' = a.run
                    /\ log' = a.log
                    /\ events' = events
               ELSE \E o \in SolverCall(a.run.state,
                                classAttrs[a.run.items[a.run.i].cls].input_name,
                                classAttrs[a.run.items[a.run.i].cls].output_name) :
                      LET b == InvokeStage(a.run, events, o)
                      IN /\ run' = b.run
                         /\ events' = b.events
                         /\ log' = a.log
    /\ UNCHANGED <<ofcVars, apiVars, concVars>>

\* close() on the generator (also what dropping it does): GeneratorExit is
\* raised at the yield, the bare except catches it, the loop is left
StreamClose ==
    /\ run.mode = "stream"
    /\ run.pc \in {"created", "yielded"}
    /\ run' = IF run.pc = "created"
              THEN [run EXCEPT !.pc = "done", !.closed = TRUE]
              ELSE [run EXCEPT
                      !.pc = "done", !.closed = TRUE, !.cont = FALSE,
                      !.output_name = Entry.input_name,
                      !.hist[Len(run.hist)].fail = "closed"]
    /\ UNCHANGED <<ofcVars, events, log, apiVars, concVars>>

Next ==
    \/ \E response \in Values, question \in Values \cup {None},
          callback \in BOOLEAN, sample_name \in SampleNames :
         Evaluate(response, question, callback, sample_name)
    \/ EvalStage
    \/ EvalReturn
    \/ \E response \in Values, question \in Values \cup {None},
          callback \in BOOLEAN, sample_name \in SampleNames :
         EvaluateStreaming(response, question, callback, sample_name)
    \/ StreamNext
    \/ StreamClose

Spec == Init /\ [][Next]_vars

\* ------------------------------------------------------------------------
\* Registrations at import time (solver.py)
\* ------------------------------------------------------------------------
\* names, classes and slot signatures the decorated modules use
RegNames == {CP, RTV}
RegClasses == {"FactoolClaimProcessor", "FactoolRetriever", NotASolver}
RegSignatures == {[input_name |-> "response", output_name |-> "claims"],
                  [input_name |-> "claims",
                   output_name |-> "claims_with_evidences"]}

\* the interpreter before any solver module was imported: an empty registry,
\* no OpenFactCheck object
InitRegistry ==
    /\ SOLVER_REGISTRY = EmptyRegistry
    /\ classAttrs = UnsetAttrs
    /\ solver_configs = [n \in Names |-> NoConfig]
    /\ pipeline = <<>>
    /\ lastBuild = [op |-> "none", status |-> "none", reason |-> "none",
                    names |-> <<>>, before |-> <<>>, constructed |-> 0]
    /\ run = IdleRun
    /\ events = <<>>
    /\ log = [s \in SampleNames |-> <<>>]
    /\ call = NoCall
    /\ state = NewState(None, None)
    /\ snapshot = NoSnapshot
    /\ threads = [t \in Threads |-> IdleThread]
    /\ dirs = {}

\* @Solver.register(name, input_name, output_name) applied to the class cls
RegisterCall(name, input_name, output_name, cls) ==
    /\ LET r == Register([registry |-> SOLVER_REGISTRY, attrs |-> classAttrs],
                         name, input_name, output_name, cls)
           o == RegisterOutcome(SOLVER_REGISTRY, name, cls)
       IN /\ SOLVER_REGISTRY' = r.registry
          /\ classAttrs' = r.attrs
          /\ call' = [op |-> "register", name |-> name, cls |-> cls,
                      input_name |-> input_name, output_name |-> output_name,
                      before |-> SOLVER_REGISTRY, attrs_before |-> classAttrs,
                      raised |-> o.raised, returned |-> o.returned]
    /\ UNCHANGED <<solver_configs, pipeline, lastBuild, run, events, log,
                   state, snapshot, concVars>>

NextRegistry ==
    \E name \in RegNames, sig \in RegSignatures, cls \in RegClasses :
        RegisterCall(name, sig.input_name, sig.output_name, cls)

SpecRegistry == InitRegistry /\ [][NextRegistry]_vars

\* ------------------------------------------------------------------------
\* Direct use of a FactCheckerState (state.py)
\* ------------------------------------------------------------------------
\* FactCheckerState(question, response) in the hands of a solver or a caller
InitState ==
    /\ SOLVER_REGISTRY = Discovered.registry
    /\ classAttrs = Discovered.attrs
    /\ solver_configs = [n \in Names |-> NoConfig]
    /\ pipeline = <<>>
    /\ lastBuild = [op |-> "none", status |-> "none", reason |-> "none",
                    names |-> <<>>, before |-> <<>>, constructed |-> 0]
    /\ run = IdleRun
    /\ events = <<>>
    /\ log = [s \in SampleNames |-> <<>>]
    /\ call = NoCall
    /\ \E question \in Values \cup {None}, response \in Values \cup {None} :
         state = NewState(question, response)
    /\ snapshot = NoSnapshot
    /\ threads = [t \in Threads |-> IdleThread]
    /\ dirs = {}

\* names the state API is called with: a slot, a name that is also a method
\* of the class, and names no stage writes
SetNames == {"claims", "get"}
GetNames == {"claims", "get", "to_dict", "nonexistent"}

\* state.set(name, value)
SetCall(name, value) ==
    /\ call' = [op |-> "set", name |-> name, value |-> value,
                before |-> state,
                raised |-> ~Callable(state, "set"),
                warned |-> Callable(state, "set") /\ HasSlot(state, name)]
    /\ state' = IF Callable(state, "set") THEN StateSet(state, name, value)
                                          ELSE state
    /\ UNCHANGED <<ofcVars, run, events, log, snapshot, concVars>>

\* state.get(name)
GetCall(name) ==
    /\ LET g == StateGet(state, name)
       IN call' = [op |-> "get", name |-> name, value |-> g.value,
                   before |-> state, raised |-> g.raised, warned |-> FALSE]
    /\ UNCHANGED <<ofcVars, run, events, log, state, snapshot, concVars>>

\* FactCheckerState.to_dict: "return self.__dict__", the dictionary of the
\* instance itself and no copy of it
to_dict(st) == [held |-> TRUE, alias |-> TRUE, taken |-> st]

\* d = state.to_dict()
ToDictCall ==
    /\ Callable(state, "to_dict")
    /\ snapshot' = to_dict(state)
    /\ call' = [op |-> "to_dict", name |-> "to_dict", value |-> Absent,
                before |-> state, raised |-> FALSE, warned |-> FALSE]
    /\ UNCHANGED <<ofcVars, run, events, log, state, concVars>>

\* what the holder of the dictionary reads in it now
SnapshotContents == IF snapshot.alias THEN state ELSE snapshot.taken

NextState ==
    \/ \E name \in SetNames, value \in Values : SetCall(name, value)
    \/ \E name \in GetNames : GetCall(name)
    \/ ToDictCall

SpecState == InitState /\ [][NextState]_vars

\* ------------------------------------------------------------------------
\* Several evaluate calls on one object (evaluator/llm/evaluate_freetext.py)
\* ------------------------------------------------------------------------
\* an object whose configured pipeline has at most two solvers
InitRuns ==
    /\ Init
    /\ Len(pipeline) <= 2

\* evaluate has returned or raised; the caller calls it again (the loop of
\* evaluate_freetext, or a repeated evaluation under the same run_id). A
\* caller that already found records of an earlier call stops there.
EvaluateReturned ==
    /\ run.mode = "sync"
    /\ run.pc = "done"
    /\ run.base = 0
    /\ run' = IdleRun
    /\ UNCHANGED <<ofcVars, events, log, apiVars, concVars>>

NextRuns ==
    \/ \E response \in Values, sample_name \in SampleNames :
         Evaluate(response, None, FALSE, sample_name)
    \/ EvalStage
    \/ EvalReturn
    \/ EvaluateReturned

SpecRuns == InitRuns /\ [][NextRuns]_vars

\* ------------------------------------------------------------------------
\* The Stage Record on disk (evaluate.py, json)
\* ------------------------------------------------------------------------
\* values a solver stores in a slot besides strings: a list of v, a tuple of
\* v (factool_retriever stores lists of (query, evidence) tuples)
ListOf(v) == 10 + v
TupleOf(v) == 20 + v
IsTuple(v) == v > 20
Item(v) == v % 10
PyValues == Values \cup {ListOf(v) : v \in Values}
                   \cup {TupleOf(v) : v \in Values}

\* json.dumps of a slot value: a tuple is written as an array, like a list
json_dumps_value(v) == IF IsTuple(v) THEN ListOf(Item(v)) ELSE v
\* json.loads of what json.dumps wrote: an array is read as a list
json_loads_value(j) == j

\* json.dumps(result) / json.loads(line) of a Stage Record
json_dumps(record) ==
    [record EXCEPT !.state = [n \in DOMAIN @ |-> json_dumps_value(@[n])]]
json_loads(line) ==
    [line EXCEPT !.state = [n \in DOMAIN @ |-> json_loads_value(@[n])]]

\* ResponseEvaluator.read_output on the lines of the file
read_output(lines) == [i \in 1..Len(lines) |-> json_loads(lines[i])]

\* the state a stage hands to persist_output: a solver wrote its output slot
InitJson ==
    /\ InitState
    /\ state["question"] = None
    /\ state["response"] \in Values

\* a solver's state.set(output_name, value) with a string, list or tuple
\* value, on the slot it has not written yet
SolverSet(name, value) ==
    /\ ~HasSlot(state, name)
    /\ state' = StateSet(state, name, value)
    /\ call' = [op |-> "set", name |-> name, value |-> value,
                before |-> state, raised |-> FALSE,
                warned |-> HasSlot(state, name)]
    /\ UNCHANGED <<ofcVars, run, events, log, snapshot, concVars>>

\* ResponseEvaluator.persist_output(state, idx, solver_name, cont,
\* sample_name) for the next stage of a run
PersistOutputCall(solver_name, cont, sample_name) ==
    /\ Len(log[sample_name]) < MaxLen
    /\ LET record == StageRecord(Len(log[sample_name]), solver_name, cont,
                                 state)
       IN /\ log' = [log EXCEPT ![sample_name] = Append(@, json_dumps(record))]
          /\ call' = [op |-> "persist_output", sample_name |-> sample_name,
                      record |-> record]
    /\ UNCHANGED <<ofcVars, run, events, state, snapshot, concVars>>

NextJson ==
    \/ \E value \in PyValues : SolverSet("claims_with_evidences", value)
    \/ \E cont \in BOOLEAN, sample_name \in SampleNames :
         PersistOutputCall(RTV, cont, sample_name)

SpecJson == InitJson /\ [][NextJson]_vars

\* ------------------------------------------------------------------------
\* init_solver between a build and a run (base.py)
\* ------------------------------------------------------------------------
\* configurations init_solver is called with: no slot names, or an input
\* slot name
SolverArgs == {NoArgs, [NoArgs EXCEPT !.input_name = "response"],
               [NoArgs EXCEPT !.input_name = "claims"]}

\* OpenFactCheck.init_solver(solver_name, args), called on its own or by the
\* build of another OpenFactCheck object of the process, while no run is
\* under way
InitSolverCall(solver_name, args) ==
    /\ run.pc = "idle"
    /\ LET r == init_solver(SOLVER_REGISTRY, classAttrs, solver_name, args)
       IN /\ classAttrs' = r.attrs
          /\ call' = [op |-> "init_solver", name |-> solver_name,
                      args |-> args, raised |-> r.raised, entry |-> r.entry]
    /\ UNCHANGED <<SOLVER_REGISTRY, solver_configs, pipeline, lastBuild, run,
                   events, log, state, snapshot, concVars>>

NextSolver ==
    \/ \E solver_name \in {RTV, Unregistered}, args \in SolverArgs :
         InitSolverCall(solver_name, args)
    \/ \E response \in Values, sample_name \in SampleNames :
         Evaluate(response, None, FALSE, sample_name)
    \/ EvalStage
    \/ EvalReturn

SpecSolver == Init /\ [][NextSolver]_vars

\* ------------------------------------------------------------------------
\* Loading the solver modules of a directory (solver.py)
\* ------------------------------------------------------------------------
\* top-level statements of a solver module: a decorated class, or any
\* statement that raises (a failing import of a dependency)
Statements ==
    {[kind |-> "register", name |-> CP, cls |-> "FactoolClaimProcessor",
      input_name |-> "response", output_name |-> "claims"],
     [kind |-> "register", name |-> RTV, cls |-> "FactoolRetriever",
      input_name |-> "claims", output_name |-> "claims_with_evidences"],
     [kind |-> "register", name |-> CP, cls |-> NotASolver,
      input_name |-> "response", output_name |-> "claims"],
     [kind |-> "raise", name |-> NoneName, cls |-> NoClass,
      input_name |-> NoneName, output_name |-> NoneName]}
\* a module is its statements in order; a directory is its modules in the
\* order load_from_directory visits them
Modules == UNION {[1..n -> Statements] : n \in 1..2}
Directories == UNION {[1..n -> Modules] : n \in 1..2}

\* importlib.import_module on a module: its statements run in order until
\* one raises; executed collects the statements that ran to their end
RECURSIVE ImportModule(_, _, _)
ImportModule(reg, stmts, executed) ==
    IF stmts = <<>>
    THEN [reg |-> reg, raised |-> FALSE, executed |-> executed]
    ELSE LET st == Head(stmts) IN
         IF st.kind = "raise"
            \/ RegisterOutcome(reg.registry, st.name, st.cls).raised
         THEN [reg |-> reg, raised |-> TRUE, executed |-> executed]
         ELSE ImportModule(Register(reg, st.name, st.input_name,
                                    st.output_name, st.cls),
                           Tail(stmts), Append(executed, st))

\* a loader that logs the failure of a module and goes on with the next
RECURSIVE LoadLoopContinue(_, _, _, _)
LoadLoopContinue(reg, modules, i, executed) ==
    IF i > Len(modules)
    THEN [reg |-> reg, raised |-> FALSE, failed |-> 0,
          visited |-> Len(modules), executed |-> executed]
    ELSE LET m == ImportModule(reg, modules[i], executed)
         IN LoadLoopContinue(m.reg, modules, i + 1, m.executed)

\* Solver.load / load_from_directory / load_from_file from module i on:
\* the exception of an import is re-raised with the module's name and ends
\* the loop
RECURSIVE LoadLoop(_, _, _, _)
LoadLoop(reg, modules, i, executed) ==
    IF i > Len(modules)
    THEN [reg |-> reg, raised |-> FALSE, failed |-> 0,
          visited |-> Len(modules), executed |-> executed]
    ELSE LET m == ImportModule(reg, modules[i], executed)
         IN IF m.raised
            THEN [reg |-> m.reg, raised |-> TRUE, failed |-> i,
                  visited |-> i, executed |-> m.executed]
            ELSE LoadLoop(m.reg, modules, i + 1, m.executed)

\* Solver.load(path, namespace) on a directory, once, into the empty registry
LoadCall(directory) ==
    /\ call.op = "none"
    /\ LET r == LoadLoop([registry |-> SOLVER_REGISTRY, attrs |-> classAttrs],
                         directory, 1, <<>>)
       IN /\ SOLVER_REGISTRY' = r.reg.registry
          /\ classAttrs' = r.reg.attrs
          /\ call' = [op |-> "load", directory |-> directory,
                      raised |-> r.raised, failed |-> r.failed,
                      visited |-> r.visited, executed |-> r.executed]
    /\ UNCHANGED <<solver_configs, pipeline, lastBuild, run, events, log,
                   state, snapshot, concVars>>

NextLoad == \E directory \in Directories : LoadCall(directory)

SpecLoad == InitRegistry /\ [][NextLoad]_vars

\* ------------------------------------------------------------------------
\* A rebuild while a stream is open (app/evaluate_response.py, app/app.py)
\* ------------------------------------------------------------------------
\* init_pipeline_manually(names) by the caller or by another session that
\* shares the cached OpenFactCheck object, after evaluate_streaming returned
\* its generator and before the stream is exhausted
RebuildWhileStreaming(names) ==
    /\ run.mode = "stream"
    /\ run.pc \in {"created", "yielded"}
    /\ lastBuild.op = "none"
    /\ Rebuild(names)

NextStreamBuild ==
    \/ \E response \in Values, sample_name \in SampleNames :
         EvaluateStreaming(response, None, FALSE, sample_name)
    \/ \E names \in {l \in NameLists : Len(l) <= 1} :
         RebuildWhileStreaming(names)
    \/ StreamNext
    \/ StreamClose

SpecStreamBuild == Init /\ [][NextStreamBuild]_vars

\* ------------------------------------------------------------------------
\* Runs of evaluate on one object from several threads (evaluate.py 27-111)
\* ------------------------------------------------------------------------
\* sample names as (directory part, file part): the output directory
\* itself, and a directory under it that two names share
RunIds ==
    {[dir |-> "", base |-> "a"], [dir |-> "d", base |-> "a"],
     [dir |-> "d", base |-> "b"]}

\* os.path.dirname(sample_name)
DirName(sample_name) == sample_name.dir

\* os.path.exists(output_path): config.py creates ofc.output_path itself
DirExists(dir, existing) == dir = "" \/ dir \in existing

\* an object with at most two solvers and a fresh output directory
InitConcurrent ==
    /\ SOLVER_REGISTRY = Discovered.registry
    /\ solver_configs \in ConfigChoices
    /\ \E config_pipeline \in NameLists :
         LET b == BuildLoop(SOLVER_REGISTRY, solver_configs, config_pipeline,
                            <<>>, Discovered.attrs, 0)
         IN /\ b.status = "ok"
            /\ Len(b.pipeline) <= 2
            /\ pipeline = b.pipeline
            /\ classAttrs = b.attrs
    /\ lastBuild = [op |-> "none", status |-> "none", reason |-> "none",
                    names |-> <<>>, before |-> <<>>, constructed |-> 0]
    /\ run = IdleRun
    /\ events = <<>>
    /\ log = [s \in RunIds |-> <<>>]
    /\ call = NoCall
    /\ state = NewState(None, None)
    /\ snapshot = NoSnapshot
    /\ threads = [t \in Threads |-> IdleThread]
    /\ dirs = {}

\* the stage thread t is at
ThreadEntry(t) == threads[t].items[threads[t].i]

\* the except block and the break test after a failure in the try block
StageFailed(f, e, o, fail) ==
    [f EXCEPT !.cont = FALSE, !.output_name = e.input_name,
              !.hist = Append(@, StageHist(e, o, fail, FALSE, FALSE)),
              !.pc = "ret"]

\* thread t calls evaluate(response, sample_name=sample_name), with a
\* sample name no running thread uses: the frame up to the first iteration
ThreadEvaluate(t, response, sample_name) ==
    /\ threads[t].pc = "idle"
    /\ \A u \in Threads \ {t} : threads[u].sample_name # sample_name
    /\ threads' = [threads EXCEPT ![t] =
          [IdleThread EXCEPT
              !.pc = IF pipeline = <<>> THEN "ret" ELSE "loop",
              !.sample_name = sample_name, !.response = response,
              !.items = pipeline, !.state = NewState(None, response)]]
    /\ UNCHANGED <<ofcVars, run, events, log, apiVars, dirs>>

\* thread t runs the solver of its stage and, when the solver returned,
\* enters persist_output up to the test os.path.exists(output_path)
ThreadSolve(t) ==
    /\ threads[t].pc = "loop"
    /\ \E o \in SolverCall(threads[t].state,
                            InstanceInputName(ThreadEntry(t)),
                            InstanceOutputName(ThreadEntry(t))) :
         threads' = [threads EXCEPT ![t] =
            IF o.raised
            THEN StageFailed([@ EXCEPT !.state = o.state],
                             ThreadEntry(t), o, "solver")
            ELSE [@ EXCEPT !.state = o.state, !.pending = o,
                           !.sawDir = DirExists(DirName(threads[t].sample_name),
                                                dirs),
                           !.pc = "persist"]]
    /\ UNCHANGED <<ofcVars, run, events, log, apiVars, dirs>>

\* thread t goes on in persist_output: os.makedirs when the test found no
\* directory, which raises FileExistsError when the directory exists by
\* now; then the append of the line, and the break test of the loop
ThreadPersist(t) ==
    /\ threads[t].pc = "persist"
    /\ LET f == threads[t]
           e == ThreadEntry(t)
           o == f.pending
           dir == DirName(f.sample_name)
       IN IF ~f.sawDir /\ DirExists(dir, dirs)
          THEN /\ threads' = [threads EXCEPT ![t] =
                                 StageFailed(f, e, o, "persist")]
               /\ UNCHANGED <<log, dirs>>
          ELSE /\ dirs' = IF f.sawDir THEN dirs ELSE dirs \cup {dir}
               /\ log' = [log EXCEPT ![f.sample_name] =
                            Append(@, StageRecord(f.i - 1, e.name, o.cont,
                                                  o.state))]
               /\ threads' = [threads EXCEPT ![t] =
                    [f EXCEPT
                       !.cont = o.cont,
                       !.output_name = e.output_name,
                       !.hist = Append(@, StageHist(e, o, "none", TRUE,
                                                    FALSE)),
                       !.i = IF BreakLoop(o.cont) \/ f.i = Len(f.items)
                             THEN @ ELSE @ + 1,
                       !.pc = IF BreakLoop(o.cont) \/ f.i = Len(f.items)
                              THEN "ret" ELSE "loop"]]
    /\ UNCHANGED <<ofcVars, run, events, apiVars>>

\* "return solver_output.get(output_name)" in thread t
ThreadReturn(t) ==
    /\ threads[t].pc = "ret"
    /\ LET g == StateGet(threads[t].state, threads[t].output_name)
       IN threads' = [threads EXCEPT ![t] =
            [@ EXCEPT !.pc = "done",
                      !.result = IF g.raised
                                 THEN [kind |-> "raised", value |-> Absent]
                                 ELSE [kind |-> "value", value |-> g.value]]]
    /\ UNCHANGED <<ofcVars, run, events, log, apiVars, dirs>>

NextConcurrent ==
    \/ \E t \in Threads, sample_name \in RunIds :
         ThreadEvaluate(t, t, sample_name)
    \/ \E t \in Threads : ThreadSolve(t)
    \/ \E t \in Threads : ThreadPersist(t)
    \/ \E t \in Threads : ThreadReturn(t)

SpecConcurrent == InitConcurrent /\ [][NextConcurrent]_vars

\* ------------------------------------------------------------------------
\* Shape of the state
\* ------------------------------------------------------------------------
TypeOK ==
    /\ run.pc \in {"idle", "loop", "ret", "created", "yielded", "done"}
    /\ run.mode \in {"none", "sync", "stream"}
    /\ run.i \in 1..(Len(run.items) + 1)
    /\ Len(run.hist) <= Len(run.items)


\* ------------------------------------------------------------------------
\* Properties
\* ------------------------------------------------------------------------
Last(q) == q[Len(q)]

\* the lines this run has appended to its log
RunRecords ==
    SubSeq(log[run.sample_name], run.base + 1, Len(log[run.sample_name]))

SyncDone == run.mode = "sync" /\ run.pc = "done"

\* C1: evaluate returns a value, never raises, when the solver of the stage
\* the run halted at raised an exception (a missing input slot included)
EvaluateNeverRaisesOnSolverException ==
    (SyncDone /\ run.hist # <<>> /\ Last(run.hist).raised)
        => run.result.kind = "value"

\* C2: in a 3-stage pipeline whose stage 2 raises, evaluate returns exactly
\* the value stage 1 stored under its output slot
FallbackReturnsStageOneOutput ==
    (/\ SyncDone
     /\ Len(run.items) = 3
     /\ Len(run.hist) = 2
     /\ ~run.hist[1].raised
     /\ HasSlot(run.hist[1].post, run.hist[1].output_name)
     /\ run.hist[2].raised)
        => run.result = [kind |-> "value",
                         value |-> run.hist[1].post[run.hist[1].output_name]]

\* C3: between two stages and at the end of a run, every stage that was
\* executed (solver returned or raised) has its Stage Record in the log
EveryExecutedStagePersisted ==
    run.pc \in {"loop", "ret", "done"}
        => Len(RunRecords) = Len(run.hist)

\* C4: when the solver of stage k returns continue = false without raising,
\* exactly k Stage Records are written and stage k is the last one invoked
EarlyStopWritesKRecords ==
    (run.mode = "sync" /\ run.pc \in {"ret", "done"})
        => \A k \in 1..Len(run.hist) :
              (~run.hist[k].raised /\ ~run.hist[k].cont)
                  => (Len(run.hist) = k /\ Len(RunRecords) = k)

\* stage k of the streaming run stopped the run: its solver raised or
\* returned continue = false, or the stage failed after the event
StoppedAt(k) ==
    run.hist[k].raised \/ ~run.hist[k].cont \/ run.hist[k].fail # "none"

\* C5: the solver_name fields of the events yielded by evaluate_streaming are
\* the pipeline's names in order, cut at the first stage that returns
\* continue = false (its event is the last one) or fails (a stage whose
\* solver raised yields no event); nothing is yielded after that stage, and
\* a stream that is consumed to its end without such a stage has one event
\* per pipeline entry
StreamingOrder ==
    run.mode = "stream" =>
        /\ Len(events) <= Len(run.items)
        /\ \A j \in 1..Len(events) :
              /\ events[j].solver_name = run.items[j].name
              /\ events[j].index = j - 1
        /\ \A k \in 1..Len(run.hist) :
              StoppedAt(k) =>
                  /\ Len(run.hist) = k
                  /\ Len(events) = IF run.hist[k].raised THEN k - 1 ELSE k
        /\ (/\ run.pc = "done"
            /\ ~run.closed
            /\ \A k \in 1..Len(run.hist) : ~StoppedAt(k))
              => Len(events) = Len(run.items)

\* a 3-stage stream consumed to its end that was cut at stage 2
StreamingOrderWitness ==
    /\ run.mode = "stream"
    /\ run.pc = "done"
    /\ ~run.closed
    /\ Len(run.items) = 3
    /\ Len(events) = 2
    /\ ~events[2].continue_run

\* C6: when the solver of the very first stage fails, evaluate returns the
\* response the caller passed in
FirstStageFailureReturnsResponse ==
    (SyncDone /\ Len(run.hist) = 1 /\ run.hist[1].raised)
        => run.result = [kind |-> "value", value |-> run.response]

\* C7: when the solver of the last executed stage returned, the cursor is
\* that stage's output name and the value returned is the one its state
\* holds there; an empty pipeline returns the response
TerminalValueIsLastStageOutput ==
    SyncDone =>
        /\ run.hist = <<>>
              => run.result = [kind |-> "value", value |-> run.response]
        /\ (run.hist # <<>> /\ ~Last(run.hist).raised)
              => /\ run.output_name = Last(run.hist).output_name
                 /\ run.result.kind = "value"
                      => run.result.value =
                           Last(run.hist).post[Last(run.hist).output_name]

\* C8: a build that succeeds yields one pipeline entry per position of the
\* name list, in the order of the list
BuildPreservesNameOrder ==
    lastBuild.status = "ok" => PipelineNames(pipeline) = lastBuild.names

\* C9: a build that raises on a name without configuration has constructed
\* no solver
BuildRaisesBeforeInstantiation ==
    (lastBuild.status = "raised" /\ lastBuild.reason = "config")
        => lastBuild.constructed = 0

\* C10: a build that raises leaves the pipeline of the object as it was
\* before the call
FailedBuildLeavesPipeline ==
    lastBuild.status = "raised" => pipeline = lastBuild.before

\* C11: a registration never changes the entry of a name that was already
\* registered, so every name keeps the class first registered under it; a
\* registration under a registered name returns that class without raising,
\* and a registration that succeeds under a free name stores its class
IdempotentRegistration ==
    call.op = "register" =>
        /\ \A n \in Names :
              call.before[n] # NoClass => SOLVER_REGISTRY[n] = call.before[n]
        /\ call.before[call.name] # NoClass
              => /\ ~call.raised
                 /\ call.returned = call.before[call.name]
                 /\ SOLVER_REGISTRY = call.before
        /\ (call.before[call.name] = NoClass /\ ~call.raised)
              => /\ SOLVER_REGISTRY[call.name] = call.cls
                 /\ call.returned = call.cls

\* a second class was registered under a name that already had one
IdempotentRegistrationWitness ==
    /\ call.op = "register"
    /\ call.before[call.name] # NoClass
    /\ call.cls \in Classes
    /\ call.cls # call.before[call.name]
    /\ call.returned = call.before[call.name]

\* C12: registering a registered name again with another class or another
\* input / output signature raises a conflict
ConflictingRegistrationRaises ==
    (/\ call.op = "register"
     /\ call.before[call.name] # NoClass
     /\ \/ call.cls # call.before[call.name]
        \/ call.input_name
              # call.attrs_before[call.before[call.name]].input_name
        \/ call.output_name
              # call.attrs_before[call.before[call.name]].output_name)
        => call.raised

\* C13: get on a name that no constructor and no set call has written raises
\* instead of returning a value
GetOfUnwrittenSlotRaises ==
    (call.op = "get" /\ (call.name \notin AttrNames
                            \/ call.before[call.name] = Absent))
        => call.raised

\* C14: set never raises and warns when the slot existed; after a set, get of
\* the slot returns the value written and every other slot is as before
SetThenGetReturnsValue ==
    call.op = "set" =>
        /\ ~call.raised
        /\ call.before[call.name] # Absent => call.warned
        /\ StateGet(state, call.name) = [raised |-> FALSE,
                                         value |-> call.value]
        /\ \A n \in AttrNames \ {call.name} : state[n] = call.before[n]

\* C17: the dictionary obtained from to_dict keeps the contents it had when
\* it was obtained, whatever is set on the state afterwards
SnapshotIsImmutable ==
    snapshot.held => SnapshotContents = snapshot.taken

\* C15: in the log of every run identifier the idx of the records is strictly
\* increasing
LogIdxStrictlyIncreasing ==
    \A s \in SampleNames :
        \A j \in 1..(Len(log[s]) - 1) : log[s][j].idx < log[s][j + 1].idx

\* C16: the record persist_output has just written, read back with
\* read_output, equals the record it was given: idx, solver, continue and
\* the state
PersistedRecordReadsBackEqual ==
    call.op = "persist_output"
        => Last(read_output(log[call.sample_name])) = call.record

\* C18: when a callback is supplied it is invoked for every stage whose
\* solver returned, in evaluate and in evaluate_streaming alike
CallbackInvokedForEveryStage ==
    (run.callback /\ run.pc \in {"loop", "ret", "done"})
        => \A k \in 1..Len(run.hist) :
              ~run.hist[k].raised => run.hist[k].called

\* C19: in a streaming run every record in the log has its event among the
\* events already yielded, the record of the stage whose event the consumer
\* is holding is not yet written, and there are never more records than
\* events
EventBeforeRecord ==
    run.mode = "stream" =>
        /\ Len(RunRecords) <= Len(events)
        /\ \A k \in 1..Len(RunRecords) :
              \E j \in 1..Len(events) :
                 /\ events[j].index = RunRecords[k].idx
                 /\ events[j].solver_name = RunRecords[k].solver
        /\ run.pc = "yielded"
              => \A k \in 1..Len(RunRecords) :
                    RunRecords[k].idx # Last(events).index

\* the consumer holds the event of stage 2 while the log has the record of
\* stage 1 only
EventBeforeRecordWitness ==
    /\ run.mode = "stream"
    /\ run.pc = "yielded"
    /\ Len(events) = 2
    /\ Len(RunRecords) = 1

\* C20: in a streaming run a solver is invoked only by a step that resumes
\* the suspended generator (the consumer's next), one solver per
\* resumption, and only when the events of all stages invoked before have
\* been yielded
StreamBackpressure ==
    [][(run'.mode = "stream" /\ Len(run'.hist) > Len(run.hist))
         => /\ run.mode = "stream"
            /\ run.pc \in {"created", "yielded"}
            /\ Len(run'.hist) = Len(run.hist) + 1
            /\ Len(events) = Len(run.hist)]_vars

\* the solver of stage 3 has been invoked after two events were consumed
StreamBackpressureWitness ==
    /\ run.mode = "stream"
    /\ Len(run.hist) = 3
    /\ Len(events) >= 2

\* C21: after a pipeline build the registry and the name, input slot name
\* and output slot name of every registered class are as discovery left
\* them
BuildLeavesDescriptors ==
    lastBuild.op # "none"
        => /\ SOLVER_REGISTRY = Discovered.registry
           /\ classAttrs = Discovered.attrs

\* C22: the entry init_solver returns carries the slot names of its
\* configuration where the configuration has them, and the slot names the
\* class was registered with where it has not
InitSolverReturnsConfiguredOrDeclared ==
    (call.op = "init_solver" /\ ~call.raised) =>
        /\ call.entry.input_name =
              IF call.args.input_name # NoKey THEN call.args.input_name
              ELSE Discovered.attrs[call.entry.cls].input_name
        /\ call.entry.output_name =
              IF call.args.output_name # NoKey THEN call.args.output_name
              ELSE Discovered.attrs[call.entry.cls].output_name

\* C30: when the solver of a pipeline entry is about to be invoked, the slot
\* names stored in the entry are the slot names the solver instance reads
\* and writes
EntryNamesAreInstanceNames ==
    (run.mode = "sync" /\ run.pc = "loop")
        => /\ Entry.input_name = InstanceInputName(Entry)
           /\ Entry.output_name = InstanceOutputName(Entry)

\* the statements of the first k modules of a directory, in order
RECURSIVE Flatten(_, _)
Flatten(directory, k) ==
    IF k = 0 THEN <<>> ELSE Flatten(directory, k - 1) \o directory[k]

\* the class the first statement registering the name n carries
FirstCls(n, stmts) ==
    IF \E k \in 1..Len(stmts) : stmts[k].name = n
    THEN stmts[CHOOSE k \in 1..Len(stmts) :
                 /\ stmts[k].name = n
                 /\ \A j \in 1..(k - 1) : stmts[j].name # n].cls
    ELSE NoClass

\* the claim as stated: after a load that raised, the registry holds exactly
\* the registrations of the modules imported before the failing one
LoadKeepsOnlyEarlierModules ==
    (call.op = "load" /\ call.raised) =>
        \A n \in Names :
            SOLVER_REGISTRY[n] =
                FirstCls(n, Flatten(call.directory, call.failed - 1))

\* C23: a load of a directory with a module that raises does raise; a load
\* that raises names the module whose statement raised, has
\* visited no module after it, and leaves in the registry exactly the
\* registrations made before the exception: those of the modules before
\* the failing one and those the failing module made before it raised
LoadIsFailFast ==
    /\ (call.op = "load"
          /\ \E i \in 1..Len(call.directory) :
               \E k \in 1..Len(call.directory[i]) :
                  call.directory[i][k].kind = "raise")
         => call.raised
    /\ (call.op = "load" /\ call.raised) =>
        /\ call.failed \in 1..Len(call.directory)
        /\ call.visited = call.failed
        /\ Len(call.executed) >= Len(Flatten(call.directory, call.failed - 1))
        /\ Len(call.executed) < Len(Flatten(call.directory, call.failed))
        /\ call.executed = SubSeq(Flatten(call.directory, call.failed), 1,
                                  Len(call.executed))
        /\ \A n \in Names : SOLVER_REGISTRY[n] = FirstCls(n, call.executed)

\* the second module of a directory raised after registering a solver, with
\* a solver of the first module already in the registry
LoadIsFailFastWitness ==
    /\ call.op = "load"
    /\ call.raised
    /\ call.failed = 2
    /\ Len(call.executed) = Len(call.directory[1]) + 1
    /\ SOLVER_REGISTRY[CP] # NoClass
    /\ SOLVER_REGISTRY[RTV] # NoClass

\* every stage the run executed went through without a failure
AllStagesSucceeded ==
    \A k \in 1..Len(run.hist) : run.hist[k].fail = "none"

\* C24: when every stage of the pipeline succeeded and the final state has
\* nothing under the output slot name of the last stage, evaluate raises
\* the error of the missing slot instead of returning a value
MissingFinalSlotRaises ==
    (/\ SyncDone
     /\ run.hist # <<>>
     /\ Len(run.hist) = Len(run.items)
     /\ AllStagesSucceeded
     /\ ~HasSlot(run.state, Last(run.hist).output_name))
        => run.result.kind = "raised"

\* a 2-stage run without a failure whose last solver returned without
\* writing its output slot
MissingFinalSlotRaisesWitness ==
    /\ SyncDone
    /\ Len(run.items) = 2
    /\ Len(run.hist) = 2
    /\ AllStagesSucceeded
    /\ ~HasSlot(run.state, run.hist[2].output_name)
    /\ run.result.kind = "raised"

\* C26: when the solver of the last executed stage returned and the callback
\* or persist_output raised afterwards, the cursor stays on that stage's
\* output slot name and the caller receives the value the state holds there
PostFailureIsNoStageFailure ==
    (/\ SyncDone
     /\ run.hist # <<>>
     /\ ~Last(run.hist).raised
     /\ Last(run.hist).fail \in {"callback", "persist"})
        => /\ run.output_name = Last(run.hist).output_name
           /\ LET g == StateGet(Last(run.hist).post,
                                Last(run.hist).output_name)
              IN run.result = IF g.raised
                              THEN [kind |-> "raised", value |-> Absent]
                              ELSE [kind |-> "value", value |-> g.value]

\* C27: the input snapshot of the stage-j event is the state as it was
\* before the solver of stage j was invoked
InputSnapshotIsPreStageState ==
    run.mode = "stream" =>
        \A j \in 1..Len(events) :
            events[j].input = IF j = 1
                              THEN NewState(run.question, run.response)
                              ELSE run.hist[j - 1].post

\* C29: when the stream has been consumed to its end the log holds one
\* record per event that was yielded
ExhaustedStreamHasRecordPerEvent ==
    (run.mode = "stream" /\ run.pc = "done" /\ ~run.closed)
        => /\ Len(RunRecords) = Len(events)
           /\ \A j \in 1..Len(events) :
                 /\ RunRecords[j].idx = events[j].index
                 /\ RunRecords[j].solver = events[j].solver_name
                 /\ RunRecords[j].continue = events[j].continue_run

\* C28: a streaming run that has invoked a solver executes the pipeline the
\* object had when evaluate_streaming was called, also when the pipeline
\* was rebuilt after the call
StreamRunsPipelineOfTheCall ==
    (run.mode = "stream" /\ run.hist # <<>> /\ lastBuild.op # "none")
        => run.items = lastBuild.before

\* the lines a run writes when no other run is in progress: one per stage
\* whose solver returned, in the order of the stages
RecordsOf(hist) ==
    [k \in 1..(IF hist # <<>> /\ Last(hist).raised
               THEN Len(hist) - 1 ELSE Len(hist)) |->
        StageRecord(k - 1, hist[k].name, hist[k].cont, hist[k].post)]

\* the value a run returns when no other run is in progress
ValueOf(f) ==
    LET g == IF f.hist = <<>> THEN StateGet(f.state, "response")
             ELSE IF Last(f.hist).raised
             THEN StateGet(f.state, Last(f.hist).input_name)
             ELSE StateGet(Last(f.hist).post, Last(f.hist).output_name)
    IN IF g.raised THEN [kind |-> "raised", value |-> Absent]
       ELSE [kind |-> "value", value |-> g.value]

\* C25: a run that shares the object with a concurrent run of another
\* sample name ends with exactly its own stage records in its log, in idx
\* order, and with the terminal value it produces when executed alone
ConcurrentRunsDoNotInterfere ==
    \A t \in Threads :
        threads[t].pc = "done"
            => /\ log[threads[t].sample_name] = RecordsOf(threads[t].hist)
               /\ threads[t].result = ValueOf(threads[t])

\* a run executed alone: the other thread never called evaluate
RunsAloneAsExpected ==
    \A t \in Threads :
        (threads[t].pc = "done"
            /\ \A u \in Threads \ {t} : threads[u].pc = "idle")
            => /\ log[threads[t].sample_name] = RecordsOf(threads[t].hist)
               /\ threads[t].result = ValueOf(threads[t])

====
